---------------------------- MODULE Spec2Model ----------------------------
(***************************************************************************)
(* Push-button wrapper (Button / ResetButton) over a GPIO input line.      *)
(*                                                                         *)
(* The repository holds four revisions of the Button class:                *)
(*   "bcm"  : bcm2835 register access          (unnamed/part_004)          *)
(*   "pin"  : AUXI(pin) backend, _irqActive    (unnamed/part_003)          *)
(*   "irq"  : AUXI(chip,pin,mode,bias),        (unnamed/part_002:527-651)  *)
(*            _irqActive + stopInterrupt()                                 *)
(*   "auxi" : thin AUXI wrapper, no own flag   (unnamed/part_002:657-783,  *)
(*            repeated at 789-908)                                         *)
(* The AUXI class itself (../AUXIO_Linux/AUXIO.h) is not part of the       *)
(* sources; its operations are modelled from the design document (Line     *)
(* Reader 4.1, Edge Monitor 4.2, Concurrency 5).                           *)
(***************************************************************************)
EXTENDS Integers, Sequences, FiniteSets, TLC

\* ------------------------------------------------------------------ bounds
\* Largest time stamp the kernel clock reaches in the timed specification.
MaxTime == 4
\* Most edge events the kernel keeps pending for the monitor task.
MaxPending == 2
\* Most edge events the kernel reports in the timed specification.
MaxEdges == 4

\* ------------------------------------------------------- program constants
\* Largest accepted GPIO offset: "if(_pin > 30)".
MaxPin == 30
\* Legacy pull mode numbers: PUD_OFF:0, PUD_DOWN:1, PUD_UP:2.
PudUp == 2
\* Number of one-second sleeps of the countdown in ResetButton::check().
CountdownSteps == 4

Revs == {"bcm", "pin", "irq", "auxi"}
AuxiRevs == {"pin", "irq", "auxi"}
Pins == {17, 31}
Puds == {0, 1, 2}
Modes == {0, 1}
Levels == {0, 1}
\* Debounce windows a caller may pass (0 disables the filter).
Windows == {0, 2}
Untimed == {0}
\* Numeric edge selectors a caller may pass to beginInterrupt(uint8_t, ...).
EdgeArgs == {0, 1, 2, 3}
\* "No event accepted yet" for the last-accepted time stamp.
NoTime == 0 - 1

VARIABLES
    rev,            \* which revision of Button is under test
    pin,            \* _pin / the AUXI line offset
    pud,            \* _pud / bias
    mode,           \* polarity: 1 = active-high, 0 = active-low
    auxi,           \* the AUXI object and the kernel resources behind it
    irqActive,      \* Button::_irqActive
    errorMessage,   \* Button::errorMessage, as <<kind, cause>>
    callerPc,       \* where the calling thread is
    lastOp,         \* the last call the caller completed
    level,          \* electrical level of the line
    now,            \* kernel clock
    kernelLog,      \* edge events the kernel reported (timed specification)
    cbLog,          \* callback invocations (timed specification)
    chk,            \* ResetButton::check() in progress
    sample,         \* the last value()/state()/read() call and its result
    race            \* two threads inside beginInterrupt() and stopInterrupt()

vars == <<rev, pin, pud, mode, auxi, irqActive, errorMessage, callerPc,
          lastOp, level, now, kernelLog, cbLog, chk, sample, race>>

\* ------------------------------------------------------------- AUXI object
AuxiInit ==
    [acquired |-> FALSE, running |-> FALSE, stopReq |-> FALSE,
     task |-> "none", sel |-> "Both", debounce |-> 0, lastAcc |-> NoTime,
     queue |-> <<>>, cur |-> <<>>, lastError |-> "",
     threads |-> 0, lineRefs |-> 0, doubleFree |-> FALSE]

AuxiRes(st, ok, err, hw) == [st |-> st, ok |-> ok, err |-> err, hw |-> hw]

\* request_line(chip, offset, input, bias): the raw, fallible line request.
AUXI_beginInput(a, hwOk) ==
    IF a.acquired THEN AuxiRes(a, TRUE, "", FALSE)
    ELSE IF ~hwOk THEN AuxiRes(a, FALSE, "AcquisitionFailed", TRUE)
    ELSE AuxiRes([a EXCEPT !.acquired = TRUE, !.lineRefs = @ + 1],
                 TRUE, "", TRUE)

\* configure(config): range check, then the line request.
AUXI_begin(a, p, hwOk) ==
    IF a.acquired THEN AuxiRes(a, TRUE, "", FALSE)
    ELSE IF p > MaxPin THEN AuxiRes(a, FALSE, "InvalidOffset", FALSE)
    ELSE AUXI_beginInput(a, hwOk)

\* start(handle, edge_selector, debounce_window, callback)
AUXI_beginInterrupt(a, sel, deb, cb, hwOk) ==
    IF ~a.acquired THEN AuxiRes(a, FALSE, "NotConfigured", FALSE)
    ELSE IF ~cb THEN AuxiRes(a, FALSE, "NoCallback", FALSE)
    ELSE IF a.running THEN AuxiRes(a, FALSE, "AlreadyRunning", FALSE)
    ELSE IF ~hwOk THEN AuxiRes(a, FALSE, "StartFailed", TRUE)
    ELSE AuxiRes([a EXCEPT !.running = TRUE, !.stopReq = FALSE,
                           !.task = "head", !.sel = sel, !.debounce = deb,
                           !.lastAcc = NoTime, !.queue = <<>>, !.cur = <<>>,
                           !.lastError = "", !.threads = @ + 1],
                 TRUE, "", TRUE)

\* stop(handle), first half: signal the task; a no-op when nothing runs.
AUXI_stopSignal(a) ==
    IF a.running THEN [a EXCEPT !.stopReq = TRUE] ELSE a

\* stop(handle), second half: the join has returned.
AUXI_stopJoined(a) ==
    [a EXCEPT !.running = FALSE, !.stopReq = FALSE, !.task = "none",
              !.queue = <<>>, !.cur = <<>>, !.threads = @ - 1]

\* release(handle): idempotent.
AUXI_clean(a) ==
    IF a.acquired
    THEN [a EXCEPT !.acquired = FALSE,
                   !.doubleFree = @ \/ (a.lineRefs = 0),
                   !.lineRefs = IF @ > 0 THEN @ - 1 ELSE 0]
    ELSE a

\* raw_level(handle): -1 before a successful configure.
AUXI_value(a, lv) == IF a.acquired THEN lv ELSE -1

\* logical_state(handle, config)
AUXI_read(a, md, lv) == IF md = 1 THEN lv = 1 ELSE lv = 0

\* The monitor's filter for one kernel event ev = <<time, rising>>.
SelIncludes(sel, rising) ==
    \/ sel = "Both"
    \/ sel = "Rising" /\ rising
    \/ sel = "Falling" /\ ~rising

Debounced(a, ev) == a.lastAcc # NoTime /\ ev[1] - a.lastAcc < a.debounce

AUXI_accepts(a, ev) == ~Debounced(a, ev) /\ SelIncludes(a.sel, ev[2])

\* ----------------------------------------------------------- Button object
\* The Button's fields as one value, and a call's outcome: the fields after
\* the call, the value returned, and whether a hardware line request was
\* issued during the call.
Btn(a, irq, err) == [auxi |-> a, irq |-> irq, err |-> err]
Ret(b, ret, hw) == [b |-> b, ret |-> ret, hw |-> hw]
SetErr(b, kind, cause) == [b EXCEPT !.err = <<kind, cause>>]
NoError == <<"", "">>

\* pud_to_mode(): pull-up means active-low, everything else active-high.
pud_to_mode(pd) == IF pd = PudUp THEN 0 ELSE 1

\* Edge selector of beginInterrupt(cb, both_edges, debounce_us).
EdgeOfBool(both) == IF both THEN "Both" ELSE "Rising"

\* Mutant: the switch's cases shifted by one (0 selects Rising).
EdgeOfArg_shifted(e) ==
    CASE e = 0 -> "Rising"
      [] e = 1 -> "Falling"
      [] e = 2 -> "Both"
      [] OTHER -> "Bad"

\* Edge selector of beginInterrupt(uint8_t edge, ...); "Bad" is the default
\* branch of the switch.
EdgeOfArg(e) ==
    CASE e = 0 -> "Both"
      [] e = 1 -> "Rising"
      [] e = 2 -> "Falling"
      [] OTHER -> "Bad"

\* ---- Button::begin()
Button_begin_bcm(b, p) ==
    IF p > MaxPin THEN Ret(SetErr(b, "PinRange", ""), FALSE, FALSE)
    ELSE Ret([b EXCEPT !.auxi.acquired = TRUE], TRUE, TRUE)

\* Mutant: the range test of _pin missing.
Button_begin_pin_norange(b, p, hwOk) ==
    LET r == AUXI_beginInput(b.auxi, hwOk) IN
    IF ~r.ok THEN Ret(SetErr(b, "BeginFailed", ""), FALSE, r.hw)
    ELSE Ret([b EXCEPT !.auxi = r.st, !.irq = FALSE], TRUE, r.hw)

Button_begin_pin(b, p, hwOk) ==
    IF p > MaxPin THEN Ret(SetErr(b, "PinRange", ""), FALSE, FALSE)
    ELSE LET r == AUXI_beginInput(b.auxi, hwOk) IN
         IF ~r.ok THEN Ret(SetErr(b, "BeginFailed", ""), FALSE, r.hw)
         ELSE Ret([b EXCEPT !.auxi = r.st, !.irq = FALSE], TRUE, r.hw)

Button_begin_irq(b, p, hwOk) ==
    LET r == AUXI_begin(b.auxi, p, hwOk) IN
    IF ~r.ok THEN Ret(SetErr(b, "BeginFailed", r.err), FALSE, r.hw)
    ELSE Ret([b EXCEPT !.auxi = r.st, !.irq = FALSE], TRUE, r.hw)

Button_begin_auxi(b, p, hwOk) ==
    LET r == AUXI_begin(b.auxi, p, hwOk) IN
    IF ~r.ok THEN Ret(SetErr(b, "BeginFailed", r.err), FALSE, r.hw)
    ELSE Ret([b EXCEPT !.auxi = r.st], TRUE, r.hw)

\* ---- Button::beginInterrupt()
\* hw1: the line request succeeds; hw2: the event request succeeds.
Button_beginInterrupt_pin(b, cb, both, deb, hw1, hw2) ==
    IF ~cb THEN Ret(SetErr(b, "CallbackNull", ""), FALSE, FALSE)
    ELSE LET r == AUXI_beginInput(b.auxi, hw1) IN
         IF ~r.ok THEN Ret(SetErr(b, "BeginFailed", ""), FALSE, r.hw)
         ELSE LET s == AUXI_beginInterrupt(r.st, EdgeOfBool(both), deb, cb, hw2) IN
              IF ~s.ok
              THEN Ret(SetErr([b EXCEPT !.auxi = r.st], "IrqFailed", ""),
                       FALSE, r.hw)
              ELSE Ret([b EXCEPT !.auxi = s.st, !.irq = TRUE], TRUE, r.hw)

\* Mutant: the result of _auxi.beginInterrupt() is not tested.
Button_beginInterrupt_irq_unchecked(b, p, cb, both, deb, hw1, hw2) ==
    IF ~cb THEN Ret(SetErr(b, "CallbackNull", ""), FALSE, FALSE)
    ELSE LET r == AUXI_begin(b.auxi, p, hw1) IN
         IF ~r.ok THEN Ret(SetErr(b, "BeginFailed", r.err), FALSE, r.hw)
         ELSE LET s == AUXI_beginInterrupt(r.st, EdgeOfBool(both), deb, cb, hw2) IN
              Ret([b EXCEPT !.auxi = s.st, !.irq = TRUE], TRUE, r.hw)

\* Mutant: the line is not requested before the monitor is started.
Button_beginInterrupt_irq_noensure(b, p, cb, both, deb, hw1, hw2) ==
    IF ~cb THEN Ret(SetErr(b, "CallbackNull", ""), FALSE, FALSE)
    ELSE LET s == AUXI_beginInterrupt(b.auxi, EdgeOfBool(both), deb, cb, hw2) IN
         IF ~s.ok
         THEN Ret(SetErr(b, "IrqFailed", s.err), FALSE, FALSE)
         ELSE Ret([b EXCEPT !.auxi = s.st, !.irq = TRUE], TRUE, FALSE)

Button_beginInterrupt_irq(b, p, cb, both, deb, hw1, hw2) ==
    IF ~cb THEN Ret(SetErr(b, "CallbackNull", ""), FALSE, FALSE)
    ELSE LET r == AUXI_begin(b.auxi, p, hw1) IN
         IF ~r.ok THEN Ret(SetErr(b, "BeginFailed", r.err), FALSE, r.hw)
         ELSE LET s == AUXI_beginInterrupt(r.st, EdgeOfBool(both), deb, cb, hw2) IN
              IF ~s.ok
              THEN Ret(SetErr([b EXCEPT !.auxi = r.st], "IrqFailed", s.err),
                       FALSE, r.hw)
              ELSE Ret([b EXCEPT !.auxi = s.st, !.irq = TRUE], TRUE, r.hw)

\* Mutant: the callback is tested after the line has been requested.
Button_beginInterrupt_auxi_late(b, p, e, deb, cb, hw1, hw2) ==
    LET r == AUXI_begin(b.auxi, p, hw1) IN
    IF ~r.ok THEN Ret(SetErr(b, "BeginFailed", r.err), FALSE, r.hw)
    ELSE IF ~cb
    THEN Ret(SetErr([b EXCEPT !.auxi = r.st], "CallbackNull", ""), FALSE, r.hw)
    ELSE IF EdgeOfArg(e) = "Bad"
    THEN Ret(SetErr([b EXCEPT !.auxi = r.st], "EdgeSelection", ""),
             FALSE, r.hw)
    ELSE LET s == AUXI_beginInterrupt(r.st, EdgeOfArg(e), deb, cb, hw2) IN
         IF ~s.ok
         THEN Ret(SetErr([b EXCEPT !.auxi = r.st], "IrqFailed", s.err),
                  FALSE, r.hw)
         ELSE Ret([b EXCEPT !.auxi = s.st], TRUE, r.hw)

\* Mutant: debounce_us is not passed on to AUXI.
Button_beginInterrupt_auxi_nodebounce(b, p, e, deb, cb, hw1, hw2) ==
    IF ~cb THEN Ret(SetErr(b, "CallbackNull", ""), FALSE, FALSE)
    ELSE LET r == AUXI_begin(b.auxi, p, hw1) IN
         IF ~r.ok THEN Ret(SetErr(b, "BeginFailed", r.err), FALSE, r.hw)
         ELSE IF EdgeOfArg(e) = "Bad"
         THEN Ret(SetErr([b EXCEPT !.auxi = r.st], "EdgeSelection", ""),
                  FALSE, r.hw)
         ELSE LET s == AUXI_beginInterrupt(r.st, EdgeOfArg(e), 0, cb, hw2) IN
              IF ~s.ok
              THEN Ret(SetErr([b EXCEPT !.auxi = r.st], "IrqFailed", s.err),
                       FALSE, r.hw)
              ELSE Ret([b EXCEPT !.auxi = s.st], TRUE, r.hw)

\* beginInterrupt(uint8_t edge, uint32_t debounce_us, GpioCallback cb)
Button_beginInterrupt_auxi(b, p, e, deb, cb, hw1, hw2) ==
    IF ~cb THEN Ret(SetErr(b, "CallbackNull", ""), FALSE, FALSE)
    ELSE LET r == AUXI_begin(b.auxi, p, hw1) IN
         IF ~r.ok THEN Ret(SetErr(b, "BeginFailed", r.err), FALSE, r.hw)
         ELSE IF EdgeOfArg(e) = "Bad"
         THEN Ret(SetErr([b EXCEPT !.auxi = r.st], "EdgeSelection", ""),
                  FALSE, r.hw)
         ELSE LET s == AUXI_beginInterrupt(r.st, EdgeOfArg(e), deb, cb, hw2) IN
              IF ~s.ok
              THEN Ret(SetErr([b EXCEPT !.auxi = r.st], "IrqFailed", s.err),
                       FALSE, r.hw)
              ELSE Ret([b EXCEPT !.auxi = s.st], TRUE, r.hw)

\* Mutant: the result of _auxi.beginInterrupt() is not tested.
Button_beginInterrupt_edge_unchecked(b, p, sel, deb, cb, hw1, hw2) ==
    IF ~cb THEN Ret(SetErr(b, "CallbackNull", ""), FALSE, FALSE)
    ELSE LET r == AUXI_begin(b.auxi, p, hw1) IN
         IF ~r.ok THEN Ret(SetErr(b, "BeginFailed", r.err), FALSE, r.hw)
         ELSE LET s == AUXI_beginInterrupt(r.st, sel, deb, cb, hw2) IN
              Ret([b EXCEPT !.auxi = s.st], TRUE, r.hw)

\* beginInterrupt(AUXI::Edge edge, uint32_t debounce_us, GpioCallback cb)
Button_beginInterrupt_edge(b, p, sel, deb, cb, hw1, hw2) ==
    IF ~cb THEN Ret(SetErr(b, "CallbackNull", ""), FALSE, FALSE)
    ELSE LET r == AUXI_begin(b.auxi, p, hw1) IN
         IF ~r.ok THEN Ret(SetErr(b, "BeginFailed", r.err), FALSE, r.hw)
         ELSE LET s == AUXI_beginInterrupt(r.st, sel, deb, cb, hw2) IN
              IF ~s.ok
              THEN Ret(SetErr([b EXCEPT !.auxi = r.st], "IrqFailed", s.err),
                       FALSE, r.hw)
              ELSE Ret([b EXCEPT !.auxi = s.st], TRUE, r.hw)

\* ---- Button::stopInterrupt(), up to the point where AUXI's stop blocks in
\* its join (b.auxi.stopReq is then set).
\* Mutant: the test of the exchanged flag inverted.
Button_stopInterrupt_irq_inverted(b) ==
    IF ~b.irq THEN [b EXCEPT !.irq = FALSE, !.auxi = AUXI_stopSignal(b.auxi)]
    ELSE [b EXCEPT !.irq = FALSE]

Button_stopInterrupt_irq(b) ==
    IF b.irq THEN [b EXCEPT !.irq = FALSE, !.auxi = AUXI_stopSignal(b.auxi)]
    ELSE b

\* Mutant: stopInterrupt() does not reach AUXI's stop.
Button_stopInterrupt_auxi_skip(b) == b

Button_stopInterrupt_auxi(b) == [b EXCEPT !.auxi = AUXI_stopSignal(b.auxi)]

\* ---- Button::clean(): the part before the join (if any) ...
Button_clean_stop_pin(b) ==
    IF b.irq THEN [b EXCEPT !.auxi = AUXI_stopSignal(b.auxi)] ELSE b

\* ... and the part after it.
Button_clean_bcm(b) == [b EXCEPT !.auxi.acquired = FALSE]

Button_clean_end_pin(b) ==
    [b EXCEPT !.irq = FALSE, !.auxi = AUXI_clean(b.auxi)]

\* Mutant: clean() stops the monitor but does not release the line.
Button_clean_end_irq_norelease(b) == b

Button_clean_end_irq(b) == [b EXCEPT !.auxi = AUXI_clean(b.auxi)]

Button_clean_end_auxi(b) == [b EXCEPT !.auxi = AUXI_clean(b.auxi)]

\* ---- Button::value(), Button::state(), Button::read()
\* lv is the electrical level of the line.
Button_value_bcm(lv) == lv

\* Mutant: the pull-down number tested instead of the pull-up number.
Button_state_bcm_pulldown(pd, lv) ==
    IF pd = 1
    THEN (IF Button_value_bcm(lv) = 0 THEN 1 ELSE 0)
    ELSE Button_value_bcm(lv)

Button_state_bcm(pd, lv) ==
    IF pd = PudUp
    THEN (IF Button_value_bcm(lv) = 0 THEN 1 ELSE 0)
    ELSE Button_value_bcm(lv)

\* static_cast<uint8_t>(v & 1)
Button_value_pin(a, lv) == AUXI_value(a, lv) % 2

Button_state_pin(a, pd, lv) ==
    IF pd = PudUp
    THEN (IF Button_value_pin(a, lv) = 0 THEN 1 ELSE 0)
    ELSE Button_value_pin(a, lv)

Button_value_irq(a, md, lv) == IF AUXI_read(a, md, lv) THEN 1 ELSE 0

Button_state_irq(a, md, lv) == Button_value_irq(a, md, lv)

Button_value_auxi(a, lv) == AUXI_value(a, lv)

Button_read_auxi(a, md, lv) == AUXI_read(a, md, lv)

\* The pressed state as the revision at hand reports it: state(), or
\* read() where state() is gone.
\* Mutant: read() of the AUXI wrapper takes its polarity from the pull mode.
Button_state_derived(r, a, pd, md, lv) ==
    CASE r = "bcm" -> Button_state_bcm(pd, lv) = 1
      [] r = "pin" -> Button_state_pin(a, pd, lv) = 1
      [] r = "irq" -> Button_state_irq(a, md, lv) = 1
      [] OTHER -> Button_state_pin(a, pd, lv) = 1

Button_state(r, a, pd, md, lv) ==
    CASE r = "bcm" -> Button_state_bcm(pd, lv) = 1
      [] r = "pin" -> Button_state_pin(a, pd, lv) = 1
      [] r = "irq" -> Button_state_irq(a, md, lv) = 1
      [] OTHER -> Button_read_auxi(a, md, lv)

Button_value(r, a, md, lv) ==
    CASE r = "bcm" -> Button_value_bcm(lv)
      [] r = "pin" -> Button_value_pin(a, lv)
      [] r = "irq" -> Button_value_irq(a, md, lv)
      [] OTHER -> Button_value_auxi(a, lv)

\* The raw level a read obtains: none (-1) from an AUXI line not acquired.
RawRead(r, a, lv) == IF r = "bcm" THEN lv ELSE AUXI_value(a, lv)

\* ------------------------------------------------------------ calling thread
B == Btn(auxi, irqActive, errorMessage)

Install(b) ==
    /\ auxi' = b.auxi
    /\ irqActive' = b.irq
    /\ errorMessage' = b.err

\* The last completed call: its name, what it returned, the arguments
\* that matter (callback present, numeric edge selector, debounce window of
\* a successful start), whether it issued a hardware line request, and the
\* name of the call completed before it.
Op(name, ret, cb, e, deb, hw) ==
    [op |-> name, ret |-> ret, cb |-> cb, edge |-> e, deb |-> deb,
     hw |-> hw, prev |-> lastOp.op]

NoOp == [op |-> "none", ret |-> TRUE, cb |-> TRUE, edge |-> 0, deb |-> 0,
         hw |-> FALSE, prev |-> "none"]

Joinable(a) == a.task \in {"exited", "failed"}

\* Fields no Button call touches.
Fixed == UNCHANGED <<rev, pin, pud, mode, level, now, chk, sample, race>>

Button_begin(r, b, p, hwOk) ==
    CASE r = "bcm" -> Button_begin_bcm(b, p)
      [] r = "pin" -> Button_begin_pin(b, p, hwOk)
      [] r = "irq" -> Button_begin_irq(b, p, hwOk)
      [] OTHER -> Button_begin_auxi(b, p, hwOk)

Begin ==
    /\ callerPc = "idle"
    /\ \E hwOk \in BOOLEAN :
         LET r == Button_begin(rev, B, pin, hwOk) IN
         /\ Install(r.b)
         /\ lastOp' = Op("begin", r.ret, TRUE, 0, 0, r.hw)
    /\ UNCHANGED callerPc
    /\ Fixed

\* e is the numeric selector; the bool overloads take both_edges = (e = 0).
Button_beginInterrupt(r, b, p, e, deb, cb, hw1, hw2) ==
    CASE r = "pin" -> Button_beginInterrupt_pin(b, cb, e = 0, deb, hw1, hw2)
      [] r = "irq" -> Button_beginInterrupt_irq(b, p, cb, e = 0, deb, hw1, hw2)
      [] OTHER -> Button_beginInterrupt_auxi(b, p, e, deb, cb, hw1, hw2)

\* W: the debounce windows the caller may pass.
BeginInterruptIn(W) ==
    /\ callerPc = "idle"
    /\ rev \in AuxiRevs
    /\ \E cb \in BOOLEAN, deb \in W, hw1 \in BOOLEAN, hw2 \in BOOLEAN :
       \E e \in (IF rev = "auxi" THEN EdgeArgs ELSE {0, 1}) :
         LET r == Button_beginInterrupt(rev, B, pin, e, deb, cb, hw1, hw2) IN
         /\ Install(r.b)
         /\ lastOp' = Op("beginInterrupt", r.ret, cb, e,
                         IF r.ret THEN deb ELSE 0, r.hw)
    /\ UNCHANGED callerPc
    /\ Fixed

\* Time stands still in the untimed specification, where a positive window
\* would only discard every edge after the first: its callers pass no
\* debounce window.  The timed specification passes the windows of Windows.
BeginInterrupt == BeginInterruptIn(Untimed)

BeginInterruptEdge ==
    /\ callerPc = "idle"
    /\ rev = "auxi"
    /\ \E cb \in BOOLEAN, deb \in Untimed, hw1 \in BOOLEAN, hw2 \in BOOLEAN :
       \E e \in {0, 1, 2} :
         LET r == Button_beginInterrupt_edge(B, pin, EdgeOfArg(e), deb, cb,
                                             hw1, hw2) IN
         /\ Install(r.b)
         /\ lastOp' = Op("beginInterrupt", r.ret, cb, e,
                         IF r.ret THEN deb ELSE 0, r.hw)
    /\ UNCHANGED callerPc
    /\ Fixed

Button_stopInterrupt(r, b) ==
    IF r = "irq" THEN Button_stopInterrupt_irq(b)
    ELSE Button_stopInterrupt_auxi(b)

\* stopInterrupt() up to AUXI's join; it returns at once when nothing is
\* to be joined.
StopInterrupt ==
    /\ callerPc = "idle"
    /\ rev \in {"irq", "auxi"}
    /\ LET b == Button_stopInterrupt(rev, B) IN
       /\ Install(b)
       /\ IF b.auxi.stopReq
          THEN callerPc' = "stopJoin" /\ UNCHANGED lastOp
          ELSE /\ callerPc' = "idle"
               /\ lastOp' = Op("stopInterrupt", TRUE, TRUE, 0, 0, FALSE)
    /\ Fixed

\* The join inside AUXI's stop returns once the task has exited.
StopJoin ==
    /\ callerPc = "stopJoin"
    /\ Joinable(auxi)
    /\ auxi' = AUXI_stopJoined(auxi)
    /\ callerPc' = "idle"
    /\ lastOp' = Op("stopInterrupt", TRUE, TRUE, 0, 0, FALSE)
    /\ UNCHANGED <<irqActive, errorMessage>>
    /\ Fixed

Button_clean_stop(r, b) ==
    CASE r = "bcm" -> b
      [] r = "pin" -> Button_clean_stop_pin(b)
      [] OTHER -> Button_stopInterrupt(r, b)

Button_clean_end(r, b) ==
    CASE r = "bcm" -> Button_clean_bcm(b)
      [] r = "pin" -> Button_clean_end_pin(b)
      [] r = "irq" -> Button_clean_end_irq(b)
      [] OTHER -> Button_clean_end_auxi(b)

\* clean(): stop the monitor (blocking in the join if one runs), then
\* release the line.
Clean ==
    /\ callerPc = "idle"
    /\ LET b == Button_clean_stop(rev, B) IN
       IF b.auxi.stopReq
       THEN /\ Install(b)
            /\ callerPc' = "cleanJoin"
            /\ UNCHANGED lastOp
       ELSE /\ Install(Button_clean_end(rev, b))
            /\ callerPc' = "idle"
            /\ lastOp' = Op("clean", TRUE, TRUE, 0, 0, FALSE)
    /\ Fixed

CleanJoin ==
    /\ callerPc = "cleanJoin"
    /\ Joinable(auxi)
    /\ Install(Button_clean_end(rev, Btn(AUXI_stopJoined(auxi), irqActive,
                                         errorMessage)))
    /\ callerPc' = "idle"
    /\ lastOp' = Op("clean", TRUE, TRUE, 0, 0, FALSE)
    /\ Fixed

\* ------------------------------------------------ line, kernel, monitor task
Caller == UNCHANGED <<rev, pin, pud, mode, irqActive, errorMessage, callerPc,
                      lastOp, chk, sample, race>>

\* The kernel reports edges only while the monitor holds its event request.
Listening(a) == a.running /\ a.task \in {"head", "wait", "callback"}

\* The line changes level; the kernel queues the edge with its time stamp.
LineEdge ==
    /\ level' = 1 - level
    /\ IF Listening(auxi)
       THEN /\ Len(auxi.queue) < MaxPending
            /\ auxi' = [auxi EXCEPT !.queue = Append(@, <<now, level = 0>>)]
       ELSE UNCHANGED auxi
    /\ UNCHANGED now
    /\ Caller

\* The monitor task is a loop: test the stop signal, block in wait_for_edge
\* (with a poll timeout), filter the event, call back.

\* Loop head: the task sees the stop signal and exits, or goes to wait.
TaskLoop ==
    /\ auxi.task = "head"
    /\ auxi' = [auxi EXCEPT !.task = IF auxi.stopReq THEN "exited" ELSE "wait"]
    /\ UNCHANGED <<level, now>>
    /\ Caller

\* Mutant: the newest pending event is returned instead of the oldest.
NextEvent_newest(q) == q[Len(q)]

\* The event wait_for_edge returns: the oldest one the kernel holds.
NextEvent(q) == Head(q)

\* Mutant: events are dispatched while a callback is still running.
TaskTake_async ==
    /\ auxi.task \in {"wait", "callback"}
    /\ auxi.queue # <<>>
    /\ LET ev == NextEvent(auxi.queue) IN
       auxi' = IF AUXI_accepts(auxi, ev)
               THEN [auxi EXCEPT !.queue = Tail(@), !.task = "callback",
                                 !.cur = ev]
               ELSE [auxi EXCEPT !.queue = Tail(@), !.task = "head"]
    /\ UNCHANGED <<level, now>>
    /\ Caller

\* wait_for_edge returns an event: debounce, edge selector, then callback.
TaskTake ==
    /\ auxi.task = "wait"
    /\ auxi.queue # <<>>
    /\ LET ev == NextEvent(auxi.queue) IN
       auxi' = IF AUXI_accepts(auxi, ev)
               THEN [auxi EXCEPT !.queue = Tail(@), !.task = "callback",
                                 !.cur = ev]
               ELSE [auxi EXCEPT !.queue = Tail(@), !.task = "head"]
    /\ UNCHANGED <<level, now>>
    /\ Caller

\* Mutant: wait_for_edge blocks without a timeout.
TaskTimeout_blocking ==
    /\ auxi.task = "wait"
    /\ auxi.queue = <<>>
    /\ FALSE
    /\ UNCHANGED <<auxi, level, now>>
    /\ Caller

\* wait_for_edge times out with nothing pending.
TaskTimeout ==
    /\ auxi.task = "wait"
    /\ auxi.queue = <<>>
    /\ auxi' = [auxi EXCEPT !.task = "head"]
    /\ UNCHANGED <<level, now>>
    /\ Caller

\* The callback returns; only now is the event the "last accepted" one.
TaskCallbackReturn ==
    /\ auxi.task = "callback"
    /\ auxi' = [auxi EXCEPT !.task = "head", !.lastAcc = auxi.cur[1],
                            !.cur = <<>>]
    /\ UNCHANGED <<level, now>>
    /\ Caller

\* Mutant: the task records the failure and goes on with its loop.
TaskWaitError_restart ==
    /\ auxi.task = "wait"
    /\ auxi' = [auxi EXCEPT !.task = "head", !.lastError = "IoFailure"]
    /\ UNCHANGED <<level, now>>
    /\ Caller

\* wait_for_edge fails irrecoverably: the task records it and terminates.
TaskWaitError ==
    /\ auxi.task = "wait"
    /\ auxi' = [auxi EXCEPT !.task = "failed", !.lastError = "IoFailure"]
    /\ UNCHANGED <<level, now>>
    /\ Caller

NoLog == UNCHANGED <<kernelLog, cbLog>>

\* --------------------------------------------------------- the specification
NoLevel == 0 - 1

\* pc "returned": check() has returned, ret is the value it returned;
\* pc "halt": check() has issued its action and is at its final loop.
\* action is the action issued on the sample taken after the countdown;
\* trace lists what the call has done so far: its samples ("pressed" or
\* "released"), its one-second sleeps and the system actions it issued.
NoCheck == [pc |-> "idle", left |-> 0, action |-> "none", ret |-> "none",
            endLevel |-> NoLevel, seenReleased |-> FALSE, trace |-> <<>>]

NoSample == [op |-> "none", raw |-> NoLevel, out |-> 0]

\* No two calls are in progress at once.
NoRace == [a |-> "none", b |-> "none", cb |-> TRUE, edge |-> 0, hw1 |-> TRUE,
           hw2 |-> TRUE, ret |-> FALSE, mixed |-> FALSE,
           init |-> Btn(AuxiInit, FALSE, NoError)]

Init ==
    /\ rev \in Revs
    /\ pin \in Pins
    /\ pud = PudUp
    /\ mode = pud_to_mode(PudUp)
    /\ auxi = AuxiInit
    /\ irqActive = FALSE
    /\ errorMessage = NoError
    /\ callerPc = "idle"
    /\ lastOp = NoOp
    /\ level \in Levels
    /\ now = 0
    /\ kernelLog = <<>>
    /\ cbLog = <<>>
    /\ chk = NoCheck
    /\ sample = NoSample
    /\ race = NoRace

Next ==
    \/ Begin /\ NoLog
    \/ BeginInterrupt /\ NoLog
    \/ BeginInterruptEdge /\ NoLog
    \/ StopInterrupt /\ NoLog
    \/ StopJoin /\ NoLog
    \/ Clean /\ NoLog
    \/ CleanJoin /\ NoLog
    \/ LineEdge /\ NoLog
    \/ TaskLoop /\ NoLog
    \/ TaskTake /\ NoLog
    \/ TaskTimeout /\ NoLog
    \/ TaskCallbackReturn /\ NoLog
    \/ TaskWaitError /\ NoLog

Spec == Init /\ [][Next]_vars

\* ------------------------------------------------- the timed specification
\* One monitor session with the kernel clock running: the caller starts the
\* monitor once, then edges arrive; kernelLog and cbLog record the session.
Times(log) == [i \in 1..Len(log) |-> log[i][1]]

TBeginInterrupt ==
    /\ ~auxi.running
    /\ BeginInterruptIn(Windows)
    /\ NoLog

TLineEdge ==
    /\ LineEdge
    /\ Len(kernelLog) < MaxEdges
    /\ kernelLog' = IF Listening(auxi)
                    THEN Append(kernelLog, <<now, level = 0>>)
                    ELSE kernelLog
    /\ UNCHANGED cbLog

TTaskTake ==
    /\ TaskTake
    /\ cbLog' = IF auxi'.task = "callback"
                THEN Append(cbLog, auxi'.cur)
                ELSE cbLog
    /\ UNCHANGED kernelLog

Tick ==
    /\ now < MaxTime
    /\ now' = now + 1
    /\ UNCHANGED <<auxi, level>>
    /\ Caller
    /\ NoLog

TInit ==
    /\ rev \in {"irq", "auxi"}
    /\ pin = 17
    /\ pud = PudUp
    /\ mode = pud_to_mode(PudUp)
    /\ auxi = AuxiInit
    /\ irqActive = FALSE
    /\ errorMessage = NoError
    /\ callerPc = "idle"
    /\ lastOp = NoOp
    /\ level \in Levels
    /\ now = 0
    /\ kernelLog = <<>>
    /\ cbLog = <<>>
    /\ chk = NoCheck
    /\ sample = NoSample
    /\ race = NoRace

TNext ==
    \/ TBeginInterrupt
    \/ TLineEdge
    \/ TaskLoop /\ NoLog
    \/ TTaskTake
    \/ TaskTimeout /\ NoLog
    \/ TaskCallbackReturn /\ NoLog
    \/ Tick

SpecDebounce == TInit /\ [][TNext]_vars

\* ------------------------------------------------ the polling specification
\* value() and state()/read() on a button in any configuration.
ValueCall ==
    /\ callerPc = "idle"
    /\ sample' = [op |-> "value", raw |-> RawRead(rev, auxi, level),
                  out |-> Button_value(rev, auxi, mode, level)]
    /\ UNCHANGED <<rev, pin, pud, mode, auxi, irqActive, errorMessage,
                   callerPc, lastOp, level, now, chk, race>>

StateCall ==
    /\ callerPc = "idle"
    /\ sample' = [op |-> "state", raw |-> RawRead(rev, auxi, level),
                  out |-> IF Button_state(rev, auxi, pud, mode, level)
                          THEN 1 ELSE 0]
    /\ UNCHANGED <<rev, pin, pud, mode, auxi, irqActive, errorMessage,
                   callerPc, lastOp, level, now, chk, race>>

\* The polarity a constructor sets from its arguments pd (pull mode, bias)
\* and md (polarity; an argument of the "auxi" revision only).
ModeOf(r, pd, md) == IF r = "auxi" THEN md ELSE pud_to_mode(pd)

\* The constructors: the "auxi" revision takes polarity and bias as two
\* arguments; the older ones take the pull mode only, and the "irq"
\* revision derives _mode from it with pud_to_mode().
RInit ==
    /\ rev \in Revs
    /\ pin = 17
    /\ pud \in Puds
    /\ mode \in {ModeOf(rev, pud, md) : md \in Modes}
    /\ auxi = AuxiInit
    /\ irqActive = FALSE
    /\ errorMessage = NoError
    /\ callerPc = "idle"
    /\ lastOp = NoOp
    /\ level \in Levels
    /\ now = 0
    /\ kernelLog = <<>>
    /\ cbLog = <<>>
    /\ chk = NoCheck
    /\ sample = NoSample
    /\ race = NoRace

RNext ==
    \/ Begin /\ NoLog
    \/ Clean /\ NoLog
    \/ LineEdge /\ NoLog
    \/ ValueCall /\ NoLog
    \/ StateCall /\ NoLog

SpecRead == RInit /\ [][RNext]_vars

\* --------------------------------------------- the hold-action specification
\* ResetButton::check(), one step per sample and per one-second sleep.
\* pressed is what state()/read() returns at the step.

\* Mutant: the test of the first sample inverted.
ResetButton_check_first_inverted(c, pressed) ==
    IF pressed THEN [c EXCEPT !.pc = "returned", !.ret = "false"]
    ELSE [c EXCEPT !.pc = "count", !.ret = "none", !.left = CountdownSteps,
                   !.seenReleased = FALSE, !.endLevel = NoLevel]

\* Mutant: a pressed first sample shuts the system down at once.
ResetButton_check_first_hasty(c, pressed) ==
    IF ~pressed THEN [c EXCEPT !.pc = "returned", !.ret = "false"]
    ELSE [c EXCEPT !.pc = "halt", !.action = "shutdown"]

\* if (!state()) return false; otherwise the countdown starts.
ResetButton_check_first(c, pressed) ==
    IF ~pressed THEN [c EXCEPT !.pc = "returned", !.ret = "false"]
    ELSE [c EXCEPT !.pc = "count", !.ret = "none", !.left = CountdownSteps,
                   !.seenReleased = FALSE, !.endLevel = NoLevel]

\* Mutant: the countdown samples the line and reboots on a release.
ResetButton_check_sleep_sampling(c, pressed) ==
    IF ~pressed THEN [c EXCEPT !.pc = "halt", !.action = "reboot"]
    ELSE [c EXCEPT !.left = @ - 1]

\* One sleep_for(1s) of the countdown; the line is not read.
ResetButton_check_sleep(c, pressed) == [c EXCEPT !.left = @ - 1]

\* Mutant: the two actions exchanged.
ResetButton_check_last_swapped(c, pressed) ==
    IF pressed THEN [c EXCEPT !.pc = "halt", !.action = "reboot"]
    ELSE [c EXCEPT !.pc = "halt", !.action = "shutdown"]

\* if (state()) { shutdown; for(;;); }  reboot; for(;;);
\* No statement after the final loops is reached: the call never returns.
ResetButton_check_last(c, pressed) ==
    IF pressed THEN [c EXCEPT !.pc = "halt", !.action = "shutdown"]
    ELSE [c EXCEPT !.pc = "halt", !.action = "reboot"]

\* The final loops.  "for (;;) std::this_thread::sleep_for(1s);" never ends.
\* "while(1);" of the bcm revision has no side effect: the program has
\* undefined behaviour once it is reached, and a build may spin there or
\* drop the loop and go on with the statement that follows it
\* (system("sudo reboot") after the shutdown branch, "return false" after
\* the reboot).  c is a call at its final loop; the result is the call
\* after leaving the loop, or c itself where the loop cannot be left.
ResetButton_check_loop(r, c) ==
    IF r # "bcm" THEN c
    ELSE IF ~("reboot" \in {c.trace[i] : i \in 1..Len(c.trace)})
    THEN [c EXCEPT !.trace = Append(@, "reboot")]
    ELSE [c EXCEPT !.pc = "returned", !.ret = "false"]

Pressed == Button_state(rev, auxi, pud, mode, level)

\* c2 is the call c after a step: the step's event ("pressed", "released"
\* or "sleep") and the action it issued, if any, are added to the trace.
Traced(c, c2, ev) ==
    [c2 EXCEPT !.trace = c.trace \o <<ev>> \o
                         (IF c2.action # c.action THEN <<c2.action>>
                          ELSE <<>>)]

SampleOf(pressed) == IF pressed THEN "pressed" ELSE "released"

CheckIdle == UNCHANGED <<rev, pin, pud, mode, auxi, irqActive, errorMessage,
                         lastOp, level, now, sample, race>>

CheckFirst ==
    /\ callerPc = "idle"
    /\ chk' = Traced(NoCheck, ResetButton_check_first(NoCheck, Pressed),
                     SampleOf(Pressed))
    /\ callerPc' = IF chk'.pc = "returned" THEN "idle" ELSE "check"
    /\ CheckIdle

CheckSleep ==
    /\ callerPc = "check"
    /\ chk.pc = "count"
    /\ chk.left > 0
    /\ chk' = [Traced(chk, ResetButton_check_sleep(chk, Pressed), "sleep")
                 EXCEPT !.seenReleased = @ \/ ~Pressed]
    /\ UNCHANGED callerPc
    /\ CheckIdle

CheckLast ==
    /\ callerPc = "check"
    /\ chk.pc = "count"
    /\ chk.left = 0
    /\ chk' = [Traced(chk, ResetButton_check_last(chk, Pressed),
                       SampleOf(Pressed))
                 EXCEPT !.endLevel = RawRead(rev, auxi, level)]
    /\ UNCHANGED callerPc
    /\ CheckIdle

\* The call leaves its final loop (where the build lets it).
CheckLoop ==
    /\ callerPc = "check"
    /\ chk.pc = "halt"
    /\ chk' = ResetButton_check_loop(rev, chk)
    /\ chk' # chk
    /\ callerPc' = IF chk'.pc = "returned" THEN "idle" ELSE "check"
    /\ CheckIdle

CInit ==
    /\ RInit

CNext ==
    \/ Begin /\ NoLog
    \/ LineEdge /\ NoLog
    \/ CheckFirst /\ NoLog
    \/ CheckSleep /\ NoLog
    \/ CheckLast /\ NoLog
    \/ CheckLoop /\ NoLog

SpecCheck == CInit /\ [][CNext]_vars

\* ----------------------------------------------- the fair specification
\* The lifecycle of an AUXI-backed button with a stopInterrupt() method,
\* under the scheduler's guarantee that a runnable thread eventually runs:
\* the monitor task takes its next step, and a join whose thread has exited
\* returns.  A failure of wait_for_edge is possible but never required.
TaskStep ==
    \/ TaskLoop /\ NoLog
    \/ TaskTake /\ NoLog
    \/ TaskTimeout /\ NoLog
    \/ TaskCallbackReturn /\ NoLog

JoinStep ==
    \/ StopJoin /\ NoLog
    \/ CleanJoin /\ NoLog

FInit ==
    /\ Init
    /\ rev \in {"irq", "auxi"}
    /\ pin = 17
    /\ level = 1

FairSpec ==
    FInit /\ [][Next]_vars /\ WF_vars(TaskStep) /\ WF_vars(JoinStep)

\* ------------------------------------------ the two-thread specification
\* One thread inside beginInterrupt() and another inside stopInterrupt() on
\* the same Button.  Button takes no lock of its own: each AUXI call and
\* each operation on the atomic _irqActive is one step, a thread's local
\* tests belong to its next step.  race.init is the Button at the moment the
\* two calls begin; race.mixed tells that one thread took a step while the
\* other was in the middle of its call.
Step(b, pc, ret) == [b |-> b, pc |-> pc, ret |-> ret]

\* if (!cb) ...; if (!_auxi.begin()) ...
Button_beginInterrupt_ensure(b, p, cb, hw1) ==
    IF ~cb THEN Step(SetErr(b, "CallbackNull", ""), "done", FALSE)
    ELSE LET r == AUXI_begin(b.auxi, p, hw1) IN
         IF ~r.ok THEN Step(SetErr(b, "BeginFailed", r.err), "done", FALSE)
         ELSE Step([b EXCEPT !.auxi = r.st], "start", FALSE)

\* Mutant: the flag is raised whatever _auxi.beginInterrupt() returned.
Button_beginInterrupt_start_always(r, b, e, cb, hw2) ==
    LET sel == IF r = "irq" THEN EdgeOfBool(e = 0) ELSE EdgeOfArg(e) IN
    IF sel = "Bad" THEN Step(SetErr(b, "EdgeSelection", ""), "done", FALSE)
    ELSE LET s == AUXI_beginInterrupt(b.auxi, sel, 0, cb, hw2) IN
         IF ~s.ok
         THEN Step(SetErr(b, "IrqFailed", s.err),
                   IF r = "irq" THEN "store" ELSE "done", FALSE)
         ELSE Step([b EXCEPT !.auxi = s.st],
                   IF r = "irq" THEN "store" ELSE "done", TRUE)

\* the edge selector, then if (!_auxi.beginInterrupt(...)) ...
Button_beginInterrupt_start(r, b, e, cb, hw2) ==
    LET sel == IF r = "irq" THEN EdgeOfBool(e = 0) ELSE EdgeOfArg(e) IN
    IF sel = "Bad" THEN Step(SetErr(b, "EdgeSelection", ""), "done", FALSE)
    ELSE LET s == AUXI_beginInterrupt(b.auxi, sel, 0, cb, hw2) IN
         IF ~s.ok THEN Step(SetErr(b, "IrqFailed", s.err), "done", FALSE)
         ELSE Step([b EXCEPT !.auxi = s.st],
                   IF r = "irq" THEN "store" ELSE "done", TRUE)

\* _irqActive.store(true), reached only after a successful start.
Button_beginInterrupt_store(b) == [b EXCEPT !.irq = TRUE]

\* if (_irqActive.exchange(false))
Button_stopInterrupt_exchange(b) ==
    Step([b EXCEPT !.irq = FALSE], IF b.irq THEN "signal" ELSE "done", TRUE)

\* _auxi.stopInterrupt() up to its join
Button_stopInterrupt_signal(b) ==
    LET a == AUXI_stopSignal(b.auxi) IN
    Step([b EXCEPT !.auxi = a], IF a.stopReq THEN "join" ELSE "done", TRUE)

RaceIdle == UNCHANGED <<rev, pin, pud, mode, callerPc, lastOp, level, now,
                        chk, sample>>

\* The two calls are made, on a Button in any state one thread can bring
\* it to.
RaceBegin ==
    /\ callerPc = "idle"
    /\ rev \in {"irq", "auxi"}
    /\ \E cb \in BOOLEAN, hw1 \in BOOLEAN, hw2 \in BOOLEAN :
       \E e \in (IF rev = "auxi" THEN EdgeArgs ELSE {0, 1}) :
         race' = [a |-> "ensure",
                  b |-> IF rev = "irq" THEN "exchange" ELSE "signal",
                  cb |-> cb, edge |-> e, hw1 |-> hw1, hw2 |-> hw2,
                  ret |-> FALSE, mixed |-> FALSE, init |-> B]
    /\ callerPc' = "race"
    /\ UNCHANGED <<rev, pin, pud, mode, auxi, irqActive, errorMessage, lastOp,
                   level, now, chk, sample>>

\* stopInterrupt() has taken a step and has not returned.
StopUnderWay == race.b = "join" \/ (rev = "irq" /\ race.b = "signal")

StartThread(s) ==
    /\ Install(s.b)
    /\ race' = [race EXCEPT !.a = s.pc, !.ret = s.ret,
                            !.mixed = @ \/ StopUnderWay]
    /\ RaceIdle

StartEnsure ==
    /\ race.a = "ensure"
    /\ StartThread(Button_beginInterrupt_ensure(B, pin, race.cb, race.hw1))

StartStart ==
    /\ race.a = "start"
    /\ StartThread(Button_beginInterrupt_start(rev, B, race.edge, race.cb,
                                               race.hw2))

StartStore ==
    /\ race.a = "store"
    /\ StartThread(Step(Button_beginInterrupt_store(B), "done", race.ret))

StopThread(s) ==
    /\ Install(s.b)
    /\ race' = [race EXCEPT !.b = s.pc,
                            !.mixed = @ \/ race.a \in {"start", "store"}]
    /\ RaceIdle

StopExchange ==
    /\ race.b = "exchange"
    /\ StopThread(Button_stopInterrupt_exchange(B))

StopSignal ==
    /\ race.b = "signal"
    /\ StopThread(Button_stopInterrupt_signal(B))

StopJoined ==
    /\ race.b = "join"
    /\ Joinable(auxi)
    /\ StopThread(Step(Btn(AUXI_stopJoined(auxi), irqActive, errorMessage),
                       "done", TRUE))

RaceInit ==
    /\ Init
    /\ rev \in {"irq", "auxi"}
    /\ pin = 17
    /\ level = 1

RaceNext ==
    \/ Begin /\ NoLog
    \/ BeginInterrupt /\ NoLog
    \/ StopInterrupt /\ NoLog
    \/ StopJoin /\ NoLog
    \/ Clean /\ NoLog
    \/ CleanJoin /\ NoLog
    \/ TaskLoop /\ NoLog
    \/ TaskTimeout /\ NoLog
    \/ TaskWaitError /\ NoLog
    \/ RaceBegin /\ NoLog
    \/ StartEnsure /\ NoLog
    \/ StartStart /\ NoLog
    \/ StartStore /\ NoLog
    \/ StopExchange /\ NoLog
    \/ StopSignal /\ NoLog
    \/ StopJoined /\ NoLog

SpecRace == RaceInit /\ [][RaceNext]_vars

\* The Button one thread leaves behind when it makes the two calls one
\* after the other.
SeqStart(r, b, p, x) ==
    Button_beginInterrupt(r, b, p, x.edge, 0, x.cb, x.hw1, x.hw2).b

SeqStop(r, b) ==
    LET s == Button_stopInterrupt(r, b) IN
    IF s.auxi.stopReq THEN [s EXCEPT !.auxi = AUXI_stopJoined(s.auxi)] ELSE s

\* ------------------------------------------------------ sequences of events
\* s is a subsequence of t: t with some elements removed, order kept.
RECURSIVE IsSubseq(_, _)
IsSubseq(s, t) ==
    IF s = <<>> THEN TRUE
    ELSE IF t = <<>> THEN FALSE
    ELSE IF Head(s) = Head(t) THEN IsSubseq(Tail(s), Tail(t))
    ELSE IsSubseq(s, Tail(t))

\* ================================================================== claims
\* The caller's last call started a monitor with selector argument e and
\* debounce window d, and the monitor task is alive with nothing pending.
Started(e, d) ==
    /\ lastOp.op = "beginInterrupt"
    /\ lastOp.ret
    /\ lastOp.edge = e
    /\ lastOp.deb = d
    /\ Listening(auxi)

\* The kernel reported four edges at t0, t0 + d/2, t0 + d/2 and t0 + 2d.
ScenarioEdges(d) ==
    /\ Len(kernelLog) = 4
    /\ Times(kernelLog) = <<kernelLog[1][1], kernelLog[1][1] + (d \div 2),
                            kernelLog[1][1] + (d \div 2),
                            kernelLog[1][1] + 2 * d>>

\* C1: with debounce window d > 0 and edge selector Both (argument 0), once
\* the monitor has processed edges at t = 0, d/2, d/2 and 2d (relative to
\* the first edge), exactly two callbacks have fired, for the first and the
\* last edge, and no error is recorded.
C1_DebounceScenario ==
    \A d \in Windows \ {0} :
        (Started(0, d) /\ ScenarioEdges(d) /\ auxi.queue = <<>>)
            => /\ cbLog = <<kernelLog[1], kernelLog[4]>>
               /\ auxi.lastError = ""

C1_Witness ==
    \E d \in Windows \ {0} :
        /\ Started(0, d) /\ ScenarioEdges(d) /\ auxi.queue = <<>>
        /\ Len(cbLog) = 2
        /\ auxi.task = "wait"

\* The claim's own reading of "logical state": the level that means
\* "pressed" is High for active-high (mode 1) and Low for active-low.
LogicalState(md, lv) == IF md = 1 THEN lv = 1 ELSE lv = 0

\* C2: for each of the four (polarity, raw level) pairs, state()/read()
\* reports pressed exactly when the raw level it read is High under
\* active-high polarity, and Low under active-low polarity.
C2_LogicalState ==
    (sample.op = "state" /\ sample.raw \in Levels)
        => ((sample.out = 1) <=> LogicalState(mode, sample.raw))

C2_Witness ==
    /\ sample.op = "state"
    /\ rev = "bcm"
    /\ mode = 0
    /\ sample.raw = 0
    /\ sample.out = 1

\* A step that is a complete beginInterrupt() call (either overload).  The
\* first three conjuncts follow from the fourth.
StartCall ==
    /\ lastOp'.op = "beginInterrupt"
    /\ lastOp'.prev = lastOp.op
    /\ UNCHANGED <<level, callerPc>>
    /\ (BeginInterrupt \/ BeginInterruptEdge)

\* A step that is a stopInterrupt() call up to its return or its join.
StopCall ==
    /\ callerPc = "idle"
    /\ UNCHANGED level
    /\ StopInterrupt

\* A step that is a clean() call up to its return or its join.
CleanCall ==
    /\ callerPc = "idle"
    /\ UNCHANGED level
    /\ Clean

\* The call had a callback and a selector in {0, 1, 2}.
ValidStart(op) == op.cb /\ op.edge \in {0, 1, 2}

\* The call was refused by the hardware (line or event request rejected).
HardwareRefused(err) ==
    err[2] \in {"AcquisitionFailed", "InvalidOffset", "StartFailed"}

Monitor(a) == <<a.running, a.stopReq, a.task, a.sel, a.debounce, a.lastAcc,
                a.queue, a.cur, a.threads>>

\* C4: there is never more than one monitor task, and a beginInterrupt()
\* issued while the monitor is Running returns false and leaves the running
\* monitor exactly as it was; when the call itself is valid and the line is
\* still held (no teardown in between) the failure is AUXI's AlreadyRunning.
C4_SingleMonitor ==
    /\ [](auxi.threads <= 1)
    /\ [][(auxi.running /\ StartCall)
            => /\ ~lastOp'.ret
               /\ Monitor(auxi') = Monitor(auxi)
               /\ (ValidStart(lastOp') /\ auxi.acquired)
                    => /\ errorMessage'[1] = "IrqFailed"
                       /\ rev # "pin" => errorMessage'[2] = "AlreadyRunning"]_vars

C4_Witness ==
    /\ lastOp.op = "beginInterrupt"
    /\ lastOp.prev = "beginInterrupt"
    /\ ~lastOp.ret
    /\ errorMessage = <<"IrqFailed", "AlreadyRunning">>
    /\ Listening(auxi)
    /\ auxi.threads = 1

\* C5: beginInterrupt() with a null callback returns false with the
\* "callback is null" error and changes nothing else: the line and the
\* monitor are as before, _irqActive is as before, and no hardware line
\* request is issued.
C5_NullCallback ==
    [][(~lastOp'.cb /\ StartCall)
         => /\ ~lastOp'.ret
            /\ errorMessage' = <<"CallbackNull", "">>
            /\ auxi' = auxi
            /\ irqActive' = irqActive
            /\ ~lastOp'.hw]_vars

C5_Witness ==
    /\ lastOp.op = "beginInterrupt"
    /\ ~lastOp.cb
    /\ errorMessage = <<"CallbackNull", "">>
    /\ ~auxi.running
    /\ ~auxi.acquired
    /\ auxi.task = "none"

C7_CleanIdempotent ==
    /\ [](/\ ~auxi.doubleFree
          /\ auxi.lineRefs = (IF auxi.acquired /\ rev # "bcm" THEN 1 ELSE 0)
          /\ (lastOp.op = "clean" /\ callerPc = "idle") => auxi.lineRefs = 0)
    /\ [][(lastOp.op \in {"clean", "none"} /\ CleanCall)
            => /\ callerPc' = "idle"
               /\ auxi' = auxi
               /\ irqActive' = irqActive
               /\ errorMessage' = errorMessage]_vars

C7_Witness ==
    /\ lastOp.op = "clean"
    /\ lastOp.prev = "clean"
    /\ callerPc = "idle"
    /\ auxi.lineRefs = 0
    /\ ~auxi.acquired
    /\ auxi.task = "none"
    /\ errorMessage = <<"IrqFailed", "AlreadyRunning">>

\* C8: stopInterrupt() with no monitor running returns at once and changes
\* nothing; the first stopInterrupt() after a successful beginInterrupt()
\* signals the monitor and joins it, and once the join has returned the
\* monitor is Idle with no task, so every further call is the no-op above.
C8_StopIdempotent ==
    /\ [][(~auxi.running /\ StopCall)
            => /\ callerPc' = "idle"
               /\ auxi' = auxi
               /\ irqActive' = irqActive
               /\ errorMessage' = errorMessage]_vars
    /\ [][(lastOp.op = "beginInterrupt" /\ lastOp.ret /\ StopCall)
            => (callerPc' = "stopJoin" /\ auxi'.stopReq)]_vars
    /\ [][(callerPc = "stopJoin" /\ StopJoin)
            => (~auxi'.running /\ auxi'.threads = 0)]_vars

C8_Witness ==
    /\ lastOp.op = "stopInterrupt"
    /\ lastOp.prev = "stopInterrupt"
    /\ callerPc = "idle"
    /\ ~auxi.running
    /\ auxi.threads = 0
    /\ auxi.acquired
    /\ rev = "irq"

\* C9: in the AUXI wrapper revision, once stopInterrupt() or clean() has
\* returned the monitor task is gone: no task exists, so no callback is in
\* progress and none can start until the caller starts a monitor again.
C9_StopJoins ==
    (rev = "auxi" /\ callerPc = "idle"
       /\ lastOp.op \in {"stopInterrupt", "clean"})
        => /\ auxi.task = "none"
           /\ auxi.threads = 0
           /\ ~auxi.running
           /\ auxi.queue = <<>>

C9_Witness ==
    /\ rev = "auxi"
    /\ callerPc = "idle"
    /\ lastOp.op = "stopInterrupt"
    /\ auxi.lastAcc # NoTime
    /\ auxi.task = "none"
    /\ level = 0

\* C10: when check() has issued its action on a configured button, the
\* whole countdown has elapsed and the action is Shutdown exactly when the
\* level sampled at the end of the countdown means pressed, Reboot
\* otherwise, whatever the line did during the countdown.
C10_HoldOutcome ==
    (chk.pc = "halt" /\ auxi.acquired)
        => /\ chk.left = 0
           /\ chk.endLevel \in Levels
           /\ chk.action = IF LogicalState(mode, chk.endLevel)
                           THEN "shutdown" ELSE "reboot"

C10_Witness ==
    /\ chk.pc = "halt"
    /\ auxi.acquired
    /\ chk.seenReleased
    /\ chk.action = "shutdown"

\* C11: a check() whose first sample is not pressed returns false at once:
\* the caller is not blocked, no countdown step is taken and no action is
\* issued; nothing of the button or the line changes.
C11_NotPressedReturns ==
    /\ []((chk.pc = "returned" /\ chk.trace[1] = "released")
            => /\ chk.ret = "false"
               /\ chk.action = "none"
               /\ chk.trace = <<"released">>
               /\ callerPc = "idle")
    /\ [][(callerPc = "idle" /\ ~Pressed /\ CheckFirst)
            => /\ chk'.pc = "returned"
               /\ chk'.ret = "false"
               /\ chk'.left = chk.left
               /\ chk'.action = "none"
               /\ callerPc' = "idle"
               /\ UNCHANGED <<auxi, irqActive, errorMessage, level>>]_vars

C11_Witness ==
    /\ chk.pc = "returned"
    /\ chk.ret = "false"
    /\ auxi.acquired
    /\ ~Pressed
    /\ rev = "pin"

\* C12 as claimed: a check() that found the button pressed returns true.
\* Stated on finite runs: when check() has nothing left to do but spin in
\* its final loop, it has returned true.
C12_ReturnsPressed ==
    (chk.pc = "halt" /\ auxi.acquired) => chk.ret = "true"

BeginCall ==
    /\ lastOp'.op = "begin"
    /\ callerPc = "idle"
    /\ UNCHANGED <<level, callerPc>>
    /\ Begin

\* C14: begin() on a button whose line offset is above the maximum (30)
\* returns false with the range error, and no hardware request for the
\* line is issued; the line and the monitor are as before.
C14_OffsetRange ==
    [][(pin > MaxPin /\ BeginCall)
         => /\ ~lastOp'.ret
            /\ ~lastOp'.hw
            /\ auxi' = auxi
            /\ errorMessage' \in {<<"PinRange", "">>,
                                  <<"BeginFailed", "InvalidOffset">>}]_vars

C14_Witness ==
    /\ lastOp.op = "begin"
    /\ ~lastOp.ret
    /\ ~lastOp.hw
    /\ pin > MaxPin
    /\ rev = "pin"
    /\ errorMessage = <<"PinRange", "">>
    /\ ~auxi.acquired

\* C15: the events delivered to the callback are, in order, a subsequence
\* of the events the kernel reported: filtering drops events and never
\* reorders, repeats or invents one.
C15_CallbackOrder == IsSubseq(cbLog, kernelLog)

C15_Witness ==
    /\ Len(cbLog) >= 2
    /\ Len(kernelLog) > Len(cbLog)
    /\ auxi.queue = <<>>
    /\ auxi.task = "wait"
    /\ cbLog[1] # cbLog[2]

\* C16 as claimed: a Running monitor implies an acquired line, and the
\* monitor is Idle once clean() has returned.
C16_MonitorNeedsLine ==
    /\ auxi.running => auxi.acquired
    /\ (lastOp.op = "clean" /\ callerPc = "idle") => ~auxi.running

\* The monitor task is in its loop.
Alive(a) == a.task \in {"head", "wait", "callback"}

\* C17: when wait_for_edge has failed, the task is dead and the failure
\* can be read from the last-error field; a dead task stays dead (no
\* callback, no step of its loop) until a stop has joined it, only a
\* successful beginInterrupt() of the caller brings a task to life, and only
\* that clears the recorded failure.
C17_WaitFailure ==
    /\ [](/\ auxi.task = "failed" => auxi.lastError = "IoFailure"
          /\ auxi.lastError # "" => (~Alive(auxi) /\ auxi.cur = <<>>))
    /\ [][auxi.task = "failed"
            => /\ auxi'.task \in {"failed", "none"}
               /\ auxi'.lastError = "IoFailure"
               /\ auxi'.lastAcc = auxi.lastAcc]_vars
    /\ [][(~Alive(auxi) /\ Alive(auxi')) => (StartCall /\ lastOp'.ret)]_vars
    /\ [][(auxi.lastError # "" /\ auxi'.lastError = "")
            => (StartCall /\ lastOp'.ret)]_vars

C17_Witness ==
    /\ auxi.task = "failed"
    /\ auxi.lastError = "IoFailure"
    /\ auxi.lastAcc # NoTime
    /\ auxi.queue # <<>>
    /\ callerPc = "idle"

\* C18 as claimed, for the revisions it cites: value() returns the raw
\* level of a configured line, whatever the polarity, and -1 instead of a
\* level when the line is not configured.
C18_RawValue ==
    (sample.op = "value" /\ rev \in {"pin", "auxi"})
        => sample.out = sample.raw

\* C19 as claimed: two buttons constructed alike except for the pull mode
\* report the same logical state for the same raw level.
C19_Original ==
    auxi.acquired
        => \A pd1 \in Puds, pd2 \in Puds, md \in Modes :
             Button_state(rev, auxi, pd1, ModeOf(rev, pd1, md), level)
               = Button_state(rev, auxi, pd2, ModeOf(rev, pd2, md), level)

\* C19, amended: in the AUXI wrapper revision the logical state of a
\* configured button depends on the raw level and the polarity argument
\* only, not on the bias; in the older revisions the polarity is derived
\* from the pull mode (pull-up: pressed is Low; otherwise pressed is High).
C19_PolarityFromPull ==
    auxi.acquired
        => /\ rev = "auxi"
                => \A pd1 \in Puds, pd2 \in Puds, md \in Modes :
                     /\ Button_state(rev, auxi, pd1, ModeOf(rev, pd1, md), level)
                          = Button_state(rev, auxi, pd2, ModeOf(rev, pd2, md),
                                         level)
                     /\ Button_state(rev, auxi, pd1, ModeOf(rev, pd1, md), level)
                          = LogicalState(md, level)
           /\ rev # "auxi"
                => \A pd \in Puds, md \in Modes :
                     Button_state(rev, auxi, pd, ModeOf(rev, pd, md), level)
                       = (IF pd = PudUp THEN level = 0 ELSE level = 1)

C19_Witness ==
    /\ rev = "auxi"
    /\ auxi.acquired
    /\ pud = PudUp
    /\ mode = 1
    /\ sample.op = "state"
    /\ sample.raw = 1
    /\ sample.out = 1
    /\ level = 1

\* The caller's edge selector e includes an edge of the given direction:
\* 0 Both, 1 Rising, 2 Falling; the older revisions take both_edges (here
\* e = 0) or Rising only.
Selected(r, e, rising) ==
    IF r = "auxi" THEN (e = 0 \/ (e = 1 /\ rising) \/ (e = 2 /\ ~rising))
    ELSE (e = 0 \/ rising)

\* The debounce rule applied to a whole sequence of events: last is the
\* time of the last accepted event (NoTime: none yet).
RECURSIVE FilterFrom(_, _, _, _, _)
FilterFrom(log, r, e, d, last) ==
    IF log = <<>> THEN <<>>
    ELSE LET ev == Head(log) IN
         IF Selected(r, e, ev[2]) /\ (last = NoTime \/ ev[1] - last >= d)
         THEN <<ev>> \o FilterFrom(Tail(log), r, e, d, ev[1])
         ELSE FilterFrom(Tail(log), r, e, d, last)

\* C20: in a monitor session started with selector e and window d, the
\* events delivered to the callback are exactly those the debounce rule
\* picks from the events the task has taken so far: an event is delivered
\* if and only if the selector includes its direction and it is at least d
\* after the last delivered one; discarded events do not move the window;
\* consecutive callbacks are at least d apart; and the last-accepted time is
\* that of the last event whose callback has run.
C20_DebounceRule ==
    (lastOp.op = "beginInterrupt" /\ lastOp.ret)
        => LET taken == SubSeq(kernelLog, 1,
                               Len(kernelLog) - Len(auxi.queue))
               n == Len(cbLog)
               ran == IF auxi.task = "callback" THEN n - 1 ELSE n
           IN  /\ cbLog = FilterFrom(taken, rev, lastOp.edge, lastOp.deb,
                                     NoTime)
               /\ \A i \in 1..(n - 1) :
                    cbLog[i + 1][1] - cbLog[i][1] >= lastOp.deb
               /\ auxi.lastAcc = IF ran = 0 THEN NoTime ELSE cbLog[ran][1]

C20_Witness ==
    /\ lastOp.op = "beginInterrupt"
    /\ lastOp.ret
    /\ lastOp.edge = 1
    /\ lastOp.deb = 2
    /\ rev = "auxi"
    /\ Len(kernelLog) = 4
    /\ Len(cbLog) = 2
    /\ auxi.queue = <<>>
    /\ auxi.task = "wait"

\* C21: stopInterrupt() on a Running monitor eventually returns even when no
\* edge is pending and none arrives: under fair scheduling a caller blocked
\* in the join of stopInterrupt() with the monitor's event queue empty gets
\* out of it, the call completes, and the monitor task is gone (the task
\* left its wait at a timeout, saw the stop signal and exited).
C21_StopReturns ==
    (callerPc = "stopJoin" /\ auxi.queue = <<>> /\ auxi.task = "wait")
      ~> (/\ callerPc = "idle"
          /\ lastOp.op = "stopInterrupt"
          /\ auxi.task = "none"
          /\ auxi.threads = 0
          /\ ~auxi.running)

C21_Witness ==
    /\ callerPc = "idle"
    /\ lastOp.op = "stopInterrupt"
    /\ lastOp.prev = "beginInterrupt"
    /\ auxi.task = "none"
    /\ auxi.threads = 0
    /\ auxi.lastAcc = NoTime
    /\ auxi.lastError = ""
    /\ auxi.acquired
    /\ level = 1

\* What two threads can tell of a Button once both calls have returned.
Outcome(b) == <<b.auxi.acquired, b.auxi.running, b.auxi.threads, b.irq, b.err>>

RaceDone == race.a = "done" /\ race.b = "done"

IsPrefix(q, r) == Len(q) <= Len(r) /\ SubSeq(r, 1, Len(q)) = q

\* C23: callbacks are invoked synchronously on the monitor task.  While a
\* callback is in progress no other invocation starts, the task takes no
\* event from the kernel (pending events only accumulate) and its only step
\* is the return of that callback; and every invocation starts from the
\* task's wait, after the previous invocation has returned (its event is
\* by then the last accepted one).
C23_SynchronousCallbacks ==
    [][/\ (auxi.task = "callback")
            => /\ cbLog' = cbLog
               /\ IsPrefix(auxi.queue, auxi'.queue)
               /\ auxi'.task \in {"callback", "head"}
               /\ auxi'.task = "callback" => auxi'.cur = auxi.cur
       /\ (cbLog' # cbLog)
            => /\ auxi.task = "wait"
               /\ auxi'.task = "callback"
               /\ cbLog' = Append(cbLog, auxi'.cur)
               /\ cbLog # <<>> => auxi.lastAcc = cbLog[Len(cbLog)][1]]_vars

\* A second callback is in progress while a further edge is pending.
C23_Witness ==
    /\ auxi.task = "callback"
    /\ Len(cbLog) = 2
    /\ auxi.cur = cbLog[2]
    /\ auxi.lastAcc = cbLog[1][1]
    /\ auxi.queue # <<>>

SystemActions == {"shutdown", "reboot"}

\* C24: a system action is issued only after the hold-action state machine
\* has reached its terminal state: wherever a shutdown or a reboot stands in
\* the trace of a check() call, the trace begins with a pressed sample,
\* goes on with the complete countdown (CountdownSteps sleeps, no sample in
\* between) and the sample taken at its end, and the action stands after
\* these.
C24_ActionAfterTerminal ==
    \A i \in 1..Len(chk.trace) :
      chk.trace[i] \in SystemActions
        => /\ i > CountdownSteps + 2
           /\ chk.trace[1] = "pressed"
           /\ \A k \in 2..(CountdownSteps + 1) : chk.trace[k] = "sleep"
           /\ chk.trace[CountdownSteps + 2] \in {"pressed", "released"}
           /\ chk.left = 0

C24_Witness ==
    /\ rev = "pin"
    /\ auxi.acquired
    /\ chk.pc = "halt"
    /\ chk.trace = <<"pressed", "sleep", "sleep", "sleep", "sleep",
                     "released", "reboot">>

\* C25 as claimed: begin() leaves the monitor state as it was, also when it
\* is called while a monitor is Running: Button's running flag
\* (_irqActive), the monitor's own running flag and its debounce window.
C25_MonitorStateFrame ==
    [][(callerPc = "idle" /\ BeginCall)
         => /\ irqActive' = irqActive
            /\ auxi'.running = auxi.running
            /\ auxi'.debounce = auxi.debounce]_vars

\* C26 as claimed: between the caller's calls _irqActive is true exactly
\* when the AUXI monitor is running, and a monitor that is running has been
\* stopped when stopInterrupt() or clean() returns.
C26_FlagTracksMonitor ==
    (callerPc = "idle" /\ rev \in {"irq", "pin"})
        => /\ irqActive <=> auxi.running
           /\ lastOp.op \in {"stopInterrupt", "clean"} => ~auxi.running

\* C27 as claimed: a beginInterrupt() that returns false leaves the line
\* and the monitor (and _irqActive) exactly as they were, for every failure
\* cause and also on a button whose line was not yet acquired.
C27_FailedStartLeavesState ==
    [][(~lastOp'.ret /\ StartCall)
         => /\ auxi' = auxi
            /\ irqActive' = irqActive]_vars

\* C28 as claimed: with a line offset above the maximum, no call ever issues
\* a hardware line request; the line is never acquired and no monitor runs
\* on it.
C28_NoRequestAboveMax ==
    pin > MaxPin
        => /\ ~lastOp.hw
           /\ ~auxi.acquired
           /\ ~auxi.running

\* The system actions a check() call has issued, in order.
Issued(c) == SelectSeq(c.trace, LAMBDA e : e \in SystemActions)

=============================================================================
